---- MODULE Spec2Model ----
(***************************************************************************)
(* Model of the operational-resilience core of phonic:                     *)
(*   pkg/shutdown/shutdown.go  - shutdown.Manager (hooks, signal triggers)  *)
(*   pkg/health/health.go      - health.Manager (registry, CheckHealth,     *)
(*                               the three HTTP handlers, checker variants) *)
(***************************************************************************)
EXTENDS Integers, Sequences, FiniteSets, TLC

(***************************************************************************)
(* Bounds                                                                  *)
(***************************************************************************)
MaxHooks == 3

\* Hook values are closures: every AddHook call registers a distinct one,
\* named here by the serial number of its registration.
HookFns == 1..MaxHooks

\* The goroutines that trigger a shutdown: the one that calls Shutdown /
\* WaitForShutdown from main, and one started to run Listen.  Either may use
\* any of the three entry points.
Callers == {"main", "listener"}

\* Registry keys are drawn from 1..NumNames.
NumNames == 2
Names == 1..NumNames

VARIABLES
    hooks,      \* shutdown.Manager.hooks: the ordered hook sequence
    pc,         \* per caller: position in Listen / WaitForShutdown / Shutdown
    kind,       \* per caller: which entry point it called
    sigChan,    \* per caller: its sigChan ("none" before signal.Notify)
    snap,       \* per caller: Shutdown's local copy `hooks`
    idx,        \* per caller: Shutdown's loop variable i (0-based, as in Go)
    ran,        \* per caller: the hooks that have returned, in order
    failLog,    \* per caller: hook_index values logged by "Shutdown hook failed"
    expired,    \* per caller: the deadline of Shutdown's ctx has passed
    exited,     \* the process has terminated (os.Exit or default signal action)
    exitStatus  \* << >> while it runs, then <<code>>: the code given to os.Exit,
                \* or <<-1>> (ProcessState.ExitCode) when a signal ended it

VARIABLES
    checkers,   \* health.Manager.checkers: map name -> Checker
    readers,    \* health.Manager.mu: number of read locks held
    writer,     \* health.Manager.mu: the write lock is held
    mpc,        \* the goroutine calling AddChecker / RemoveChecker: position
    hpc,        \* the goroutine calling CheckHealth: position
    hkind,      \* ... and the entry point it has returned to
    snapshot,   \* CheckHealth's local map `checkers`
    gor,        \* per snapshot name: state of its checker goroutine
    resultCh,   \* CheckHealth's resultCh: buffered results, oldest first
    closed,     \* resultCh has been closed
    checks,     \* CheckHealth's local slice `checks`
    health,     \* the HealthResponse returned by CheckHealth
    resp,       \* what the HTTP handler wrote to its ResponseWriter
    live        \* what the liveness handler wrote to its ResponseWriter

VARIABLES
    globalLogger,   \* logger.globalLogger: << >> is nil, <<l>> points to Logger l
    logOut,         \* the entries written by loggers of the package, oldest first
    logRet          \* the last call of an error-returning function of the
                    \* package: its name, its argument and the error ("" is nil)

svars == <<hooks, pc, kind, sigChan, snap, idx, ran, failLog, expired, exited,
          exitStatus>>

regvars == <<checkers, readers, writer, mpc>>

passvars == <<hpc, hkind, snapshot, gor, resultCh, closed, checks, health, resp>>

hvars == <<regvars, passvars, live>>

lvars == <<globalLogger, logOut, logRet>>

vars == <<svars, hvars, lvars>>

(***************************************************************************)
(* shutdown.Manager                                                        *)
(***************************************************************************)

\* FirstIndex as it would be if the loop started at the first registered hook.
FirstIndexForward(h) == 0

\* for i := len(hooks) - 1; ...
FirstIndex(h) == Len(h) - 1

\* LoopCond as it would be with `i > 0`: the hook at index 0 is left out.
LoopCondSkipsFirst(i) == i > 0

\* ...; i >= 0; ...
LoopCond(i) == i >= 0

\* ...; i--
NextIndex(i) == i - 1

\* hook := hooks[i]   (Go slices are 0-based, TLA+ sequences 1-based)
HookAt(h, i) == h[i + 1]

\* hooks := make([]Hook, len(m.hooks)); copy(hooks, m.hooks)
CopyHooks(h) == [k \in 1..Len(h) |-> h[k]]

InitShutdown ==
    /\ hooks = << >>
    /\ pc = [t \in Callers |-> "idle"]
    /\ kind = [t \in Callers |-> "none"]
    /\ sigChan = [t \in Callers |-> "none"]
    /\ snap = [t \in Callers |-> << >>]
    /\ idx = [t \in Callers |-> -1]
    /\ ran = [t \in Callers |-> << >>]
    /\ failLog = [t \in Callers |-> << >>]
    /\ expired = [t \in Callers |-> FALSE]
    /\ exited = FALSE
    /\ exitStatus = << >>

\* m.hooks = append(m.hooks, hook), under m.mu
AddHook(fn) ==
    /\ ~exited
    /\ Len(hooks) < MaxHooks
    /\ fn = Len(hooks) + 1
    /\ hooks' = Append(hooks, fn)
    /\ UNCHANGED <<lvars, hvars, expired, pc, kind, sigChan, snap, idx, ran, failLog, exited, exitStatus>>

\* Listen: sigChan := make(chan os.Signal, 1); signal.Notify(sigChan, ...)
Listen(t) ==
    /\ ~exited
    /\ pc[t] = "idle"
    /\ pc' = [pc EXCEPT ![t] = "sigwait"]
    /\ kind' = [kind EXCEPT ![t] = "Listen"]
    /\ sigChan' = [sigChan EXCEPT ![t] = "empty"]
    /\ UNCHANGED <<lvars, hvars, expired, hooks, snap, idx, ran, failLog, exited, exitStatus>>

\* WaitForShutdown: sigChan := make(chan os.Signal, 1); signal.Notify(...)
WaitForShutdown(t) ==
    /\ ~exited
    /\ pc[t] = "idle"
    /\ pc' = [pc EXCEPT ![t] = "sigwait"]
    /\ kind' = [kind EXCEPT ![t] = "WaitForShutdown"]
    /\ sigChan' = [sigChan EXCEPT ![t] = "empty"]
    /\ UNCHANGED <<lvars, hvars, expired, hooks, snap, idx, ran, failLog, exited, exitStatus>>

\* The operating system delivers SIGINT/SIGTERM.  With no signal.Notify in
\* effect the default action terminates the process; otherwise the signal
\* is sent, without blocking, to every registered channel of capacity 1.
Signal ==
    /\ ~exited
    /\ IF \A t \in Callers : sigChan[t] = "none"
       THEN /\ exited' = TRUE
            /\ exitStatus' = <<-1>>
            /\ UNCHANGED sigChan
       ELSE /\ \E t \in Callers : sigChan[t] = "empty"
            /\ sigChan' = [t \in Callers |->
                              IF sigChan[t] = "empty" THEN "full" ELSE sigChan[t]]
            /\ UNCHANGED <<exited, exitStatus>>
    /\ UNCHANGED <<lvars, hvars, expired, hooks, pc, kind, snap, idx, ran, failLog>>

\* sig := <-sigChan; m.logger.Info(...); m.Shutdown()  [entering Shutdown]
RecvSignal(t) ==
    /\ ~exited
    /\ pc[t] = "sigwait"
    /\ sigChan[t] = "full"
    /\ sigChan' = [sigChan EXCEPT ![t] = "empty"]
    /\ pc' = [pc EXCEPT ![t] = "begin"]
    /\ UNCHANGED <<lvars, hvars, expired, hooks, kind, snap, idx, ran, failLog, exited, exitStatus>>

\* A direct call of Shutdown: context.WithTimeout, "Starting graceful shutdown"
CallShutdown(t) ==
    /\ ~exited
    /\ pc[t] = "idle"
    /\ pc' = [pc EXCEPT ![t] = "begin"]
    /\ kind' = [kind EXCEPT ![t] = "Shutdown"]
    /\ UNCHANGED <<lvars, hvars, expired, hooks, sigChan, snap, idx, ran, failLog, exited, exitStatus>>

\* m.mu.Lock(); copy; m.mu.Unlock(); i := len(hooks) - 1
SnapshotHooks(t) ==
    /\ ~exited
    /\ pc[t] = "begin"
    /\ snap' = [snap EXCEPT ![t] = CopyHooks(hooks)]
    /\ idx' = [idx EXCEPT ![t] = FirstIndex(hooks)]
    /\ pc' = [pc EXCEPT ![t] = "loop"]
    /\ UNCHANGED <<lvars, hvars, expired, hooks, kind, sigChan, ran, failLog, exited, exitStatus>>

\* loop condition true: hook := hooks[i]; hook(ctx) is entered
HookStart(t) ==
    /\ ~exited
    /\ pc[t] = "loop"
    /\ LoopCond(idx[t])
    /\ pc' = [pc EXCEPT ![t] = "hook"]
    /\ UNCHANGED <<lvars, hvars, expired, hooks, kind, sigChan, snap, idx, ran, failLog, exited, exitStatus>>

\* HookReturn as it would be if a failing hook ended the loop (a `break` or
\* `return` in the error branch).
HookReturnAbort(t, err) ==
    /\ ~exited
    /\ pc[t] = "hook"
    /\ ran' = [ran EXCEPT ![t] =
                  Append(@, [index |-> idx[t], hook |-> HookAt(snap[t], idx[t]),
                             err |-> err])]
    /\ failLog' = [failLog EXCEPT ![t] = IF err THEN Append(@, idx[t]) ELSE @]
    /\ idx' = [idx EXCEPT ![t] = IF err THEN -1 ELSE NextIndex(idx[t])]
    /\ pc' = [pc EXCEPT ![t] = "loop"]
    /\ UNCHANGED <<lvars, hvars, expired, hooks, kind, sigChan, snap, exited, exitStatus>>

\* HookReturn as it would be if every hook got a context of its own, derived
\* inside the loop: the deadline starts afresh for the next hook.
HookReturnFreshCtx(t, err) ==
    /\ ~exited
    /\ pc[t] = "hook"
    /\ ran' = [ran EXCEPT ![t] =
                  Append(@, [index |-> idx[t], hook |-> HookAt(snap[t], idx[t]),
                             err |-> err])]
    /\ failLog' = [failLog EXCEPT ![t] = IF err THEN Append(@, idx[t]) ELSE @]
    /\ idx' = [idx EXCEPT ![t] = NextIndex(idx[t])]
    /\ pc' = [pc EXCEPT ![t] = "loop"]
    /\ expired' = [expired EXCEPT ![t] = FALSE]
    /\ UNCHANGED <<lvars, hvars, hooks, kind, sigChan, snap, exited, exitStatus>>

\* HookReturn as it would be if the loop ran over m.hooks itself instead of
\* the copy: after each hook the sequence is read again and the next hook is
\* the last one not yet counted.
HookReturnRereads(t, err) ==
    /\ ~exited
    /\ pc[t] = "hook"
    /\ ran' = [ran EXCEPT ![t] =
                  Append(@, [index |-> idx[t], hook |-> HookAt(snap[t], idx[t]),
                             err |-> err])]
    /\ failLog' = [failLog EXCEPT ![t] = IF err THEN Append(@, idx[t]) ELSE @]
    /\ snap' = [snap EXCEPT ![t] = CopyHooks(hooks)]
    /\ idx' = [idx EXCEPT ![t] = Len(hooks) - Len(ran[t]) - 2]
    /\ pc' = [pc EXCEPT ![t] = "loop"]
    /\ UNCHANGED <<lvars, hvars, expired, hooks, kind, sigChan, exited, exitStatus>>

\* HookReturn as it would be if the failure were logged with a counter of
\* the hooks run so far (0 for the first hook executed) instead of i.
HookReturnLogsExecutionOrder(t, err) ==
    /\ ~exited
    /\ pc[t] = "hook"
    /\ ran' = [ran EXCEPT ![t] =
                  Append(@, [index |-> idx[t], hook |-> HookAt(snap[t], idx[t]),
                             err |-> err])]
    /\ failLog' = [failLog EXCEPT ![t] = IF err THEN Append(@, Len(ran[t])) ELSE @]
    /\ idx' = [idx EXCEPT ![t] = NextIndex(idx[t])]
    /\ pc' = [pc EXCEPT ![t] = "loop"]
    /\ UNCHANGED <<lvars, hvars, expired, hooks, kind, sigChan, snap, exited, exitStatus>>

\* hook(ctx) returns err; a non-nil err is logged with hook_index i; i--
HookReturn(t, err) ==
    /\ ~exited
    /\ pc[t] = "hook"
    /\ ran' = [ran EXCEPT ![t] =
                  Append(@, [index |-> idx[t], hook |-> HookAt(snap[t], idx[t]),
                             err |-> err])]
    /\ failLog' = [failLog EXCEPT ![t] = IF err THEN Append(@, idx[t]) ELSE @]
    /\ idx' = [idx EXCEPT ![t] = NextIndex(idx[t])]
    /\ pc' = [pc EXCEPT ![t] = "loop"]
    /\ UNCHANGED <<lvars, hvars, expired, hooks, kind, sigChan, snap, exited, exitStatus>>

\* loop condition false: "Graceful shutdown completed"; Shutdown returns
ShutdownReturn(t) ==
    /\ ~exited
    /\ pc[t] = "loop"
    /\ ~LoopCond(idx[t])
    /\ pc' = [pc EXCEPT ![t] = "done"]
    /\ UNCHANGED <<lvars, hvars, expired, hooks, kind, sigChan, snap, idx, ran, failLog, exited, exitStatus>>

\* Exit as it would be if WaitForShutdown called os.Exit without waiting
\* for Shutdown to return.
ExitEarly(t) ==
    /\ ~exited
    /\ pc[t] \in {"begin", "loop", "hook", "done"}
    /\ kind[t] = "WaitForShutdown"
    /\ exited' = TRUE
    /\ exitStatus' = <<0>>
    /\ UNCHANGED <<lvars, hvars, expired, hooks, pc, kind, sigChan, snap, idx, ran, failLog>>

\* Exit as it would be if the exit status reported failed hooks.
ExitReportingFailure(t) ==
    /\ ~exited
    /\ pc[t] = "done"
    /\ kind[t] = "WaitForShutdown"
    /\ exited' = TRUE
    /\ exitStatus' = IF failLog[t] = << >> THEN <<0>> ELSE <<1>>
    /\ UNCHANGED <<lvars, hvars, expired, hooks, pc, kind, sigChan, snap, idx, ran, failLog>>

\* WaitForShutdown: os.Exit(0) after m.Shutdown() has returned
Exit(t) ==
    /\ ~exited
    /\ pc[t] = "done"
    /\ kind[t] = "WaitForShutdown"
    /\ exited' = TRUE
    /\ exitStatus' = <<0>>
    /\ UNCHANGED <<lvars, hvars, expired, hooks, pc, kind, sigChan, snap, idx, ran, failLog>>

\* The deadline of ctx (context.WithTimeout(context.Background(), m.timeout))
\* passes while the Shutdown call that derived it is running.
Timeout(t) ==
    /\ ~exited
    /\ pc[t] \in {"begin", "loop", "hook"}
    /\ ~expired[t]
    /\ expired' = [expired EXCEPT ![t] = TRUE]
    /\ UNCHANGED <<lvars, hvars, hooks, pc, kind, sigChan, snap, idx, ran, failLog, exited, exitStatus>>

NextShutdown ==
    \/ \E fn \in HookFns : AddHook(fn)
    \/ \E t \in Callers : Listen(t)
    \/ \E t \in Callers : WaitForShutdown(t)
    \/ Signal
    \/ \E t \in Callers : RecvSignal(t)
    \/ \E t \in Callers : CallShutdown(t)
    \/ \E t \in Callers : SnapshotHooks(t)
    \/ \E t \in Callers : HookStart(t)
    \/ \E t \in Callers, err \in BOOLEAN : HookReturn(t, err)
    \/ \E t \in Callers : ShutdownReturn(t)
    \/ \E t \in Callers : Exit(t)

(***************************************************************************)
(* health: Status, CheckResult, the Checker implementations                *)
(***************************************************************************)
StatusHealthy == "healthy"
StatusUnhealthy == "unhealthy"
StatusUnknown == "unknown"

\* a nil / empty map[string]string
NoMetadata == << >>

\* Checker values.  A CustomChecker wraps a checkFunc, given here by what it
\* returns (healthy, message, metadata) or by the fact that it never returns;
\* "Stub" stands for any other implementation of the Checker interface, which
\* may report any Status.
CustomOK ==
    [variant |-> "Custom", name |-> "system_resources", healthy |-> TRUE,
     status |-> "", message |-> "ok", metadata |-> NoMetadata, returns |-> TRUE]
CustomDown ==
    [variant |-> "Custom", name |-> "system_resources", healthy |-> FALSE,
     status |-> "", message |-> "down", metadata |-> [code |-> "x"], returns |-> TRUE]
CustomHang ==
    [variant |-> "Custom", name |-> "system_resources", healthy |-> TRUE,
     status |-> "", message |-> "", metadata |-> NoMetadata, returns |-> FALSE]
StubUnknown ==
    [variant |-> "Stub", name |-> "", healthy |-> FALSE,
     status |-> StatusUnknown, message |-> "", metadata |-> NoMetadata, returns |-> TRUE]

Checkers == {CustomOK, CustomDown, CustomHang, StubUnknown}

\* CustomCheck as it would be if the adapter dropped the metadata of its
\* checkFunc.
CustomCheckNoMetadata(c) ==
    [name |-> "",
     status |-> IF ~c.healthy THEN StatusUnhealthy ELSE StatusHealthy,
     message |-> c.message,
     metadata |-> NoMetadata]

\* CustomChecker.Check: the CheckResult built from checkFunc's return values
\* (Name is left at its zero value)
CustomCheck(c) ==
    [name |-> "",
     status |-> IF ~c.healthy THEN StatusUnhealthy ELSE StatusHealthy,
     message |-> c.message,
     metadata |-> c.metadata]

\* A DatabaseChecker, given by what its *sql.DB answers: the error of
\* PingContext ("" is nil) and the pool statistics.
DatabaseUp ==
    [variant |-> "Database", pingErr |-> "",
     stats |-> [OpenConnections |-> 2, InUse |-> 1, Idle |-> 1], returns |-> TRUE]
DatabaseRefused ==
    [variant |-> "Database", pingErr |-> "connection refused",
     stats |-> [OpenConnections |-> 0, InUse |-> 0, Idle |-> 0], returns |-> TRUE]

DatabaseCheckers == {DatabaseUp, DatabaseRefused}

\* DatabaseCheck as it would be if a ping error escaped as an outcome without
\* a verdict.
DatabaseCheckNoVerdict(c) ==
    IF c.pingErr # ""
    THEN [name |-> "", status |-> StatusUnknown, message |-> "",
          metadata |-> NoMetadata]
    ELSE [name |-> "", status |-> StatusHealthy,
          message |-> "Database connection healthy",
          metadata |-> [open_connections |-> ToString(c.stats.OpenConnections),
                        in_use |-> ToString(c.stats.InUse),
                        idle |-> ToString(c.stats.Idle)]]

\* DatabaseChecker.Check
DatabaseCheck(c) ==
    IF c.pingErr # ""
    THEN [name |-> "", status |-> StatusUnhealthy,
          message |-> "Database ping failed: " \o c.pingErr,
          metadata |-> NoMetadata]
    ELSE [name |-> "", status |-> StatusHealthy,
          message |-> "Database connection healthy",
          metadata |-> [open_connections |-> ToString(c.stats.OpenConnections),
                        in_use |-> ToString(c.stats.InUse),
                        idle |-> ToString(c.stats.Idle)]]

\* A RedisChecker, given by what its client answers: the error and the reply
\* of Ping, and whether the Info query fails.
RedisCheckers ==
    {[variant |-> "Redis", pingErr |-> "i/o timeout", pong |-> "", infoErr |-> TRUE,
      returns |-> TRUE],
     [variant |-> "Redis", pingErr |-> "", pong |-> "LOADING", infoErr |-> FALSE,
      returns |-> TRUE],
     [variant |-> "Redis", pingErr |-> "", pong |-> "PONG", infoErr |-> FALSE,
      returns |-> TRUE],
     [variant |-> "Redis", pingErr |-> "", pong |-> "PONG", infoErr |-> TRUE,
      returns |-> TRUE]}

\* RedisCheck as it would be if a failing Info query made the checker
\* unhealthy.
RedisCheckInfoRequired(c) ==
    IF c.pingErr # ""
    THEN [name |-> "", status |-> StatusUnhealthy,
          message |-> "Redis ping failed: " \o c.pingErr,
          metadata |-> NoMetadata]
    ELSE IF c.pong # "PONG"
         THEN [name |-> "", status |-> StatusUnhealthy,
               message |-> "Redis ping returned unexpected response: " \o c.pong,
               metadata |-> NoMetadata]
         ELSE IF c.infoErr
              THEN [name |-> "", status |-> StatusUnhealthy,
                    message |-> "Redis info failed",
                    metadata |-> NoMetadata]
              ELSE [name |-> "", status |-> StatusHealthy,
                    message |-> "Redis connection healthy",
                    metadata |-> [ping_response |-> c.pong, info_available |-> "true"]]

\* RedisChecker.Check
RedisCheck(c) ==
    IF c.pingErr # ""
    THEN [name |-> "", status |-> StatusUnhealthy,
          message |-> "Redis ping failed: " \o c.pingErr,
          metadata |-> NoMetadata]
    ELSE IF c.pong # "PONG"
         THEN [name |-> "", status |-> StatusUnhealthy,
               message |-> "Redis ping returned unexpected response: " \o c.pong,
               metadata |-> NoMetadata]
         ELSE [name |-> "", status |-> StatusHealthy,
               message |-> "Redis connection healthy",
               metadata |-> IF ~c.infoErr
                            THEN [ping_response |-> c.pong, info_available |-> "true"]
                            ELSE [ping_response |-> c.pong]]

\* the status codes and content types the probed service answers with
StatusCodes == {199, 200, 299, 300, 503}
ContentTypes == {"", "application/json"}

\* A MoshiChecker, given by its serviceURL and what the probe meets: an
\* error of http.NewRequestWithContext, an error of client.Do, or a response.
MoshiResponds(code, ctype) ==
    [variant |-> "Moshi", serviceURL |-> "moshi:8080", reqErr |-> "", doErr |-> "",
     statusCode |-> code, contentType |-> ctype, returns |-> TRUE]
MoshiBadURL ==
    [variant |-> "Moshi", serviceURL |-> "moshi :8080",
     reqErr |-> "invalid character in host name", doErr |-> "",
     statusCode |-> 0, contentType |-> "", returns |-> TRUE]
MoshiUnreachable ==
    [variant |-> "Moshi", serviceURL |-> "moshi:8080", reqErr |-> "",
     doErr |-> "context deadline exceeded",
     statusCode |-> 0, contentType |-> "", returns |-> TRUE]

MoshiCheckers ==
    {MoshiBadURL, MoshiUnreachable}
        \cup {MoshiResponds(code, ctype) : code \in StatusCodes, ctype \in ContentTypes}

\* metadata := map[string]string{"service_url": ..., "status_code": ..., ...}
MoshiMetadata(c) ==
    [service_url |-> c.serviceURL, status_code |-> ToString(c.statusCode),
     content_type |-> c.contentType]

\* MoshiCheck as it would be if the upper end of the healthy range were
\* included.
MoshiCheckUpTo300(c) ==
    IF c.reqErr # ""
    THEN [name |-> "", status |-> StatusUnhealthy,
          message |-> "Failed to create request: " \o c.reqErr,
          metadata |-> NoMetadata]
    ELSE IF c.doErr # ""
         THEN [name |-> "", status |-> StatusUnhealthy,
               message |-> "Moshi service unreachable: " \o c.doErr,
               metadata |-> NoMetadata]
         ELSE IF c.statusCode >= 200 /\ c.statusCode <= 300
              THEN [name |-> "", status |-> StatusHealthy,
                    message |-> "Moshi service responding",
                    metadata |-> MoshiMetadata(c)]
              ELSE [name |-> "", status |-> StatusUnhealthy,
                    message |-> "Moshi service returned status "
                                    \o ToString(c.statusCode),
                    metadata |-> MoshiMetadata(c)]

\* MoshiChecker.Check
MoshiCheck(c) ==
    IF c.reqErr # ""
    THEN [name |-> "", status |-> StatusUnhealthy,
          message |-> "Failed to create request: " \o c.reqErr,
          metadata |-> NoMetadata]
    ELSE IF c.doErr # ""
         THEN [name |-> "", status |-> StatusUnhealthy,
               message |-> "Moshi service unreachable: " \o c.doErr,
               metadata |-> NoMetadata]
         ELSE IF c.statusCode >= 200 /\ c.statusCode < 300
              THEN [name |-> "", status |-> StatusHealthy,
                    message |-> "Moshi service responding",
                    metadata |-> MoshiMetadata(c)]
              ELSE [name |-> "", status |-> StatusUnhealthy,
                    message |-> "Moshi service returned status "
                                    \o ToString(c.statusCode),
                    metadata |-> MoshiMetadata(c)]

\* every Checker value of the model
VariantCheckers == Checkers \cup DatabaseCheckers \cup RedisCheckers \cup MoshiCheckers

\* c.Check(ctx) through the Checker interface
Check(c) ==
    CASE c.variant = "Custom" -> CustomCheck(c)
      [] c.variant = "Database" -> DatabaseCheck(c)
      [] c.variant = "Redis" -> RedisCheck(c)
      [] c.variant = "Moshi" -> MoshiCheck(c)
      [] OTHER -> [name |-> c.name, status |-> c.status, message |-> c.message,
                   metadata |-> c.metadata]

(***************************************************************************)
(* health.Manager: registry                                                *)
(***************************************************************************)
\* the zero HealthResponse (CheckHealth has not returned)
NoHealth == [status |-> "", checks |-> << >>]

\* a fresh ResponseWriter: no header written (code 0), nothing in the body
NewWriter == [code |-> 0, body |-> << >>]

InitHealth ==
    /\ checkers = << >>
    /\ readers = 0
    /\ writer = FALSE
    /\ mpc = "idle"
    /\ hpc = "idle"
    /\ hkind = "none"
    /\ snapshot = << >>
    /\ gor = << >>
    /\ resultCh = << >>
    /\ closed = FALSE
    /\ checks = << >>
    /\ health = NoHealth
    /\ resp = NewWriter
    /\ live = NewWriter

\* MapSet as it would be if the first registration of a name won.
MapSetIfAbsent(m, name, checker) ==
    [n \in (DOMAIN m) \cup {name} |-> IF n \in DOMAIN m THEN m[n] ELSE checker]

\* m.checkers[name] = checker
MapSet(m, name, checker) ==
    [n \in (DOMAIN m) \cup {name} |-> IF n = name THEN checker ELSE m[n]]

\* MapDelete as it would be if removing a registered name reset the map.
MapDeleteAll(m, name) == IF name \in DOMAIN m THEN << >> ELSE m

\* delete(m.checkers, name)
MapDelete(m, name) == [n \in (DOMAIN m) \ {name} |-> m[n]]

\* AddChecker or RemoveChecker is entered: both begin with m.mu.Lock(),
\* which blocks until the lock is free
CallMutator ==
    /\ mpc = "idle"
    /\ mpc' = "lockwait"
    /\ UNCHANGED <<lvars, svars, checkers, readers, writer, passvars, live>>

\* m.mu.Lock() returns: no reader and no writer holds the lock
Lock ==
    /\ mpc = "lockwait"
    /\ readers = 0
    /\ ~writer
    /\ writer' = TRUE
    /\ mpc' = "locked"
    /\ UNCHANGED <<lvars, svars, checkers, readers, passvars, live>>

\* AddChecker(name, checker): m.checkers[name] = checker, then the deferred
\* m.mu.Unlock()
AddChecker(name, checker) ==
    /\ mpc = "locked"
    /\ checkers' = MapSet(checkers, name, checker)
    /\ writer' = FALSE
    /\ mpc' = "idle"
    /\ UNCHANGED <<lvars, svars, readers, passvars, live>>

\* RemoveChecker(name): delete(m.checkers, name), then the deferred
\* m.mu.Unlock()
RemoveChecker(name) ==
    /\ mpc = "locked"
    /\ checkers' = MapDelete(checkers, name)
    /\ writer' = FALSE
    /\ mpc' = "idle"
    /\ UNCHANGED <<lvars, svars, readers, passvars, live>>

(***************************************************************************)
(* health.Manager.CheckHealth and the handlers built on it                 *)
(***************************************************************************)
\* CheckHealth is entered, directly or from HTTPHandler / ReadinessHandler
\* (which do nothing before it but derive ctx); it blocks in m.mu.RLock().
\* Which of the three callers it was is of no effect until CheckHealth
\* returns, and is recorded in hkind by the action of that caller.
CallCheckHealth ==
    /\ hpc = "idle"
    /\ hpc' = "rlockwait"
    /\ UNCHANGED <<lvars, svars, regvars, hkind, snapshot, gor, resultCh, closed,
                   checks, health, resp, live>>

\* m.mu.RLock() returns: no writer holds the lock and none is waiting for it
RLock ==
    /\ hpc = "rlockwait"
    /\ ~writer
    /\ mpc # "lockwait"
    /\ readers' = readers + 1
    /\ hpc' = "rlocked"
    /\ UNCHANGED <<lvars, svars, checkers, writer, mpc, hkind, snapshot, gor,
                   resultCh, closed, checks, health, resp, live>>

\* checkers := make(map...); for name, checker := range m.checkers {...}
CopyCheckers(m) == [n \in DOMAIN m |-> m[n]]

\* SnapshotAndRUnlock as it would be with `defer m.mu.RUnlock()`: the read
\* lock stays held while the checkers run.
SnapshotDeferRUnlock ==
    /\ hpc = "rlocked"
    /\ snapshot' = CopyCheckers(checkers)
    /\ hpc' = "fork"
    /\ UNCHANGED <<lvars, svars, checkers, readers, writer, mpc, hkind, gor, resultCh,
                   closed, checks, health, resp, live>>

\* SnapshotAndRUnlock as it would be if CheckHealth took the map itself and
\* left the manager a fresh one (`m.checkers = make(map[string]Checker)`).
SnapshotTakesCheckers ==
    /\ hpc = "rlocked"
    /\ snapshot' = CopyCheckers(checkers)
    /\ checkers' = << >>
    /\ readers' = readers - 1
    /\ hpc' = "fork"
    /\ UNCHANGED <<lvars, svars, writer, mpc, hkind, gor, resultCh,
                   closed, checks, health, resp, live>>

\* the copy loop, then m.mu.RUnlock()
SnapshotAndRUnlock ==
    /\ hpc = "rlocked"
    /\ snapshot' = CopyCheckers(checkers)
    /\ readers' = readers - 1
    /\ hpc' = "fork"
    /\ UNCHANGED <<lvars, svars, checkers, writer, mpc, hkind, gor, resultCh,
                   closed, checks, health, resp, live>>

\* Capacity as it would be if the channel buffered a single result.
CapacityOne(m) == 1

\* resultCh := make(chan CheckResult, len(checkers))
Capacity(m) == Cardinality(DOMAIN m)

\* Fork as it would be if the loop left out the last checker of the copy.
ForkSkipsLast ==
    /\ hpc = "fork"
    /\ gor' = [n \in {m \in DOMAIN snapshot : \E o \in DOMAIN snapshot : o > m}
                  |-> "running"]
    /\ hpc' = "collect"
    /\ UNCHANGED <<lvars, svars, regvars, hkind, snapshot, resultCh, closed, checks,
                   health, resp, live>>

\* for name, checker := range checkers { wg.Add(1); go func(n, c) {...} }
\* and `go func() { wg.Wait(); close(resultCh) }()`
Fork ==
    /\ hpc = "fork"
    /\ gor' = [n \in DOMAIN snapshot |-> "running"]
    /\ hpc' = "collect"
    /\ UNCHANGED <<lvars, svars, regvars, hkind, snapshot, resultCh, closed, checks,
                   health, resp, live>>

\* GoroutineChecker as it would be if the goroutines looked the checker up
\* in m.checkers when they run instead of receiving it from the copy.
GoroutineCheckerLive(n) == IF n \in DOMAIN checkers THEN checkers[n] ELSE snapshot[n]

\* the Checker a goroutine was handed as its argument c
GoroutineChecker(n) == snapshot[n]

\* SetName as it would be if the goroutines read the loop variable `name`
\* they close over instead of their parameter n: all see its last value.
SetNameShared(result, n) ==
    [result EXCEPT !.name = CHOOSE m \in DOMAIN snapshot :
                                \A o \in DOMAIN snapshot : o <= m]

\* result.Name = n
SetName(result, n) == [result EXCEPT !.name = n]

\* goroutine n: result := c.Check(ctx) returns; result.Name = n;
\* resultCh <- result; wg.Done()
CheckerDone(n) ==
    /\ hpc = "collect"
    /\ n \in DOMAIN gor
    /\ gor[n] = "running"
    /\ GoroutineChecker(n).returns
    /\ Len(resultCh) < Capacity(snapshot)
    /\ resultCh' = Append(resultCh, SetName(Check(GoroutineChecker(n)), n))
    /\ gor' = [gor EXCEPT ![n] = "done"]
    /\ UNCHANGED <<lvars, svars, regvars, hpc, hkind, snapshot, closed, checks,
                   health, resp, live>>

\* WaitGroupDone as it would be if the closer did not wait for every
\* goroutine (wg.Add missing for all but one of them).
WaitGroupAnyDone == gor = << >> \/ \E n \in DOMAIN gor : gor[n] = "done"

\* wg.Wait() returns once every goroutine has called wg.Done()
WaitGroupDone == \A n \in DOMAIN gor : gor[n] = "done"

\* wg.Wait(); close(resultCh)
CloseResults ==
    /\ hpc = "collect"
    /\ ~closed
    /\ WaitGroupDone
    /\ closed' = TRUE
    /\ UNCHANGED <<lvars, svars, regvars, hpc, hkind, snapshot, gor, resultCh, checks,
                   health, resp, live>>

\* for result := range resultCh { checks = append(checks, result) }
Collect ==
    /\ hpc = "collect"
    /\ resultCh # << >>
    /\ checks' = Append(checks, Head(resultCh))
    /\ resultCh' = Tail(resultCh)
    /\ UNCHANGED <<lvars, svars, regvars, hpc, hkind, snapshot, gor, closed, health,
                   resp, live>>

\* OverallStatus as it would be if a report needed at least one outcome to
\* be healthy.
OverallStatusNonEmpty(cs) ==
    IF cs = << >> \/ \E k \in 1..Len(cs) : cs[k].status = StatusUnhealthy
    THEN StatusUnhealthy
    ELSE StatusHealthy

\* OverallStatus as it would be if every status other than healthy made the
\* aggregate unhealthy (`check.Status != StatusHealthy`).
OverallStatusStrict(cs) ==
    IF \E k \in 1..Len(cs) : cs[k].status # StatusHealthy
    THEN StatusUnhealthy
    ELSE StatusHealthy

\* OverallStatus as it would be with a third tier: an outcome of unknown
\* status, with none unhealthy, makes the aggregate unknown.
OverallStatusUnknownTier(cs) ==
    IF \E k \in 1..Len(cs) : cs[k].status = StatusUnhealthy
    THEN StatusUnhealthy
    ELSE IF \E k \in 1..Len(cs) : cs[k].status = StatusUnknown
         THEN StatusUnknown
         ELSE StatusHealthy

\* overallStatus := StatusHealthy; for ... if check.Status == StatusUnhealthy
OverallStatus(cs) ==
    IF \E k \in 1..Len(cs) : cs[k].status = StatusUnhealthy
    THEN StatusUnhealthy
    ELSE StatusHealthy

\* HealthResponse as it would be if the aggregate were taken from the outcome
\* that arrived first.
HealthResponseFirstArrived(cs) ==
    [status |-> IF cs # << >> /\ cs[1].status = StatusUnhealthy
                THEN StatusUnhealthy
                ELSE StatusHealthy,
     checks |-> cs]

\* return HealthResponse{Status: overallStatus, ..., Checks: checks}
HealthResponse(cs) == [status |-> OverallStatus(cs), checks |-> cs]

(***************************************************************************)
(* net/http.ResponseWriter and encoding/json as the handlers use them       *)
(***************************************************************************)
StatusOK == 200
StatusServiceUnavailable == 503
StatusInternalServerError == 500

\* WriteHeader as it would be if a later call replaced the status code.
WriteHeaderLast(w, code) == [w EXCEPT !.code = code]

\* w.WriteHeader(code): only the first call sets the status
WriteHeader(w, code) == IF w.code = 0 THEN [w EXCEPT !.code = code] ELSE w

\* what handlers write to the body: plain text, or a JSON document
Text(str) == [type |-> "text", data |-> str]
Json(obj) == [type |-> "json", data |-> obj]

\* w.Write(b): writes an implicit 200 header when none was written
Write(w, b) ==
    [code |-> IF w.code = 0 THEN StatusOK ELSE w.code, body |-> Append(w.body, b)]

\* http.Error(w, msg, code)
HttpError(w, msg, code) == Write(WriteHeader(w, code), Text(msg))

\* EncodeCheck as it would be if Message were not exported to JSON.
EncodeCheckNoMessage(c) ==
    [name |-> c.name, status |-> c.status]
        @@ (IF DOMAIN c.metadata # {} THEN [metadata |-> c.metadata] ELSE << >>)

\* JSON object of a CheckResult: `message` and `metadata` carry omitempty
EncodeCheck(c) ==
    [name |-> c.name, status |-> c.status]
        @@ (IF c.message # "" THEN [message |-> c.message] ELSE << >>)
        @@ (IF DOMAIN c.metadata # {} THEN [metadata |-> c.metadata] ELSE << >>)

\* JSON object of a HealthResponse: a nil Checks slice encodes as null
Encode(h) ==
    [status |-> h.status,
     checks |-> IF h.checks = << >>
                THEN "null"
                ELSE [k \in 1..Len(h.checks) |-> EncodeCheck(h.checks[k])]]

\* HTTPHandler: the status written for a HealthResponse
HealthCode(h) ==
    IF h.status = StatusHealthy THEN StatusOK ELSE StatusServiceUnavailable

\* HTTPHandler after CheckHealth: WriteHeader, then Encode; when Encode
\* fails nothing of the report was written and http.Error is called
HTTPHandlerResponse(h, encErr) ==
    LET w == WriteHeader(NewWriter, HealthCode(h))
    IN  IF encErr
        THEN HttpError(w, "Internal Server Error", StatusInternalServerError)
        ELSE Write(w, Json(Encode(h)))

\* ReadinessResponse as it would be if readiness required every outcome to
\* be healthy.
ReadinessResponseAllHealthy(h) ==
    IF \A k \in 1..Len(h.checks) : h.checks[k].status = StatusHealthy
    THEN Write(WriteHeader(NewWriter, StatusOK), Text("ready"))
    ELSE Write(WriteHeader(NewWriter, StatusServiceUnavailable), Text("not ready"))

\* ReadinessHandler after CheckHealth
ReadinessResponse(h) ==
    IF h.status = StatusHealthy
    THEN Write(WriteHeader(NewWriter, StatusOK), Text("ready"))
    ELSE Write(WriteHeader(NewWriter, StatusServiceUnavailable), Text("not ready"))

\* RangeEnded as it would be if the collector stopped at the first moment it
\* found the channel empty instead of waiting for close(resultCh).
RangeEndedNoWait == hpc = "collect" /\ resultCh = << >>

\* `range resultCh` ends: the channel is closed and drained
RangeEnded == hpc = "collect" /\ closed /\ resultCh = << >>

\* a direct CheckHealth call returns its HealthResponse
CheckHealth ==
    /\ RangeEnded
    /\ hkind' = "CheckHealth"
    /\ health' = HealthResponse(checks)
    /\ hpc' = "returned"
    /\ UNCHANGED <<lvars, svars, regvars, snapshot, gor, resultCh, closed,
                   checks, resp, live>>

\* HTTPHandler: health := m.CheckHealth(ctx); the response is written
HTTPHandler(encErr) ==
    /\ RangeEnded
    /\ hkind' = "HTTPHandler"
    /\ health' = HealthResponse(checks)
    /\ resp' = HTTPHandlerResponse(HealthResponse(checks), encErr)
    /\ hpc' = "returned"
    /\ UNCHANGED <<lvars, svars, regvars, snapshot, gor, resultCh, closed,
                   checks, live>>

\* ReadinessHandler: health := m.CheckHealth(ctx); the response is written
ReadinessHandler ==
    /\ RangeEnded
    /\ hkind' = "ReadinessHandler"
    /\ health' = HealthResponse(checks)
    /\ resp' = ReadinessResponse(HealthResponse(checks))
    /\ hpc' = "returned"
    /\ UNCHANGED <<lvars, svars, regvars, snapshot, gor, resultCh, closed,
                   checks, live>>

\* the caller is done with the result; the goroutine serves the next request
RequestDone ==
    /\ hpc = "returned"
    /\ hpc' = "idle"
    /\ hkind' = "none"
    /\ snapshot' = << >>
    /\ gor' = << >>
    /\ closed' = FALSE
    /\ checks' = << >>
    /\ health' = NoHealth
    /\ resp' = NewWriter
    /\ UNCHANGED <<lvars, svars, regvars, resultCh, live>>

\* LivenessHandler: w.WriteHeader(http.StatusOK); w.Write([]byte("alive"))
LivenessResponse == Write(WriteHeader(NewWriter, StatusOK), Text("alive"))

\* LivenessHandler as it would be if it consulted the registry.
LivenessHandlerChecked ==
    /\ live = NewWriter
    /\ live' = IF \E n \in DOMAIN checkers : checkers[n] = CustomDown
               THEN Write(WriteHeader(NewWriter, StatusServiceUnavailable), Text("alive"))
               ELSE LivenessResponse
    /\ UNCHANGED <<lvars, svars, regvars, passvars>>

LivenessHandler ==
    /\ live = NewWriter
    /\ live' = LivenessResponse
    /\ UNCHANGED <<lvars, svars, regvars, passvars>>

\* the liveness request is over
LivenessDone ==
    /\ live # NewWriter
    /\ live' = NewWriter
    /\ UNCHANGED <<lvars, svars, regvars, passvars>>

NextHealth ==
    \/ CallMutator
    \/ Lock
    \/ \E n \in Names, c \in Checkers : AddChecker(n, c)
    \/ \E n \in Names : RemoveChecker(n)
    \/ CallCheckHealth
    \/ RLock
    \/ SnapshotAndRUnlock
    \/ Fork
    \/ \E n \in Names : CheckerDone(n)
    \/ CloseResults
    \/ Collect
    \/ CheckHealth
    \/ \E encErr \in BOOLEAN : HTTPHandler(encErr)
    \/ ReadinessHandler
    \/ RequestDone

\* the registry and CheckHealth passes, with liveness requests served
\* alongside them; the registered checkers are Custom ones that succeed,
\* fail or never return
NextLiveness ==
    \/ LivenessHandler
    \/ LivenessDone
    \/ CallMutator
    \/ Lock
    \/ \E n \in Names, c \in {CustomOK, CustomDown, CustomHang} : AddChecker(n, c)
    \/ \E n \in Names : RemoveChecker(n)
    \/ CallCheckHealth
    \/ RLock
    \/ SnapshotAndRUnlock
    \/ Fork
    \/ \E n \in Names : CheckerDone(n)
    \/ CloseResults
    \/ Collect
    \/ ReadinessHandler
    \/ RequestDone

(***************************************************************************)
(* package logger: the global logger and its level                         *)
(***************************************************************************)
\* zapcore.DebugLevel .. zapcore.ErrorLevel, by name
LevelNames == {"debug", "info", "warn", "error"}

LevelValue(name) ==
    CASE name = "debug" -> -1
      [] name = "info" -> 0
      [] name = "warn" -> 1
      [] name = "error" -> 2

\* level texts handed to the package: names zapcore knows, in either case,
\* the empty text (which zapcore reads as info) and a text it rejects
LevelTexts == {"debug", "info", "warn", "error", "ERROR", "", "verbose"}

\* zapcore.ParseLevel(text)
ParseLevel(text) ==
    CASE text \in {"debug", "info", "warn", "error"} -> [ok |-> TRUE, level |-> text]
      [] text = "ERROR" -> [ok |-> TRUE, level |-> "error"]
      [] text = "" -> [ok |-> TRUE, level |-> "info"]
      [] OTHER -> [ok |-> FALSE, level |-> "info"]

\* a nil error
NilError == ""

InitLogger ==
    /\ globalLogger = << >>
    /\ logOut = << >>
    /\ logRet = [fn |-> "", arg |-> "", err |-> NilError]

\* logger.New(cfg), by cfg.Logging.Level and the outcome of zapConfig.Build()
New(text, buildErr) ==
    IF ~ParseLevel(text).ok
    THEN [logger |-> << >>, err |-> "invalid log level"]
    ELSE IF buildErr
         THEN [logger |-> << >>, err |-> "failed to build logger"]
         ELSE [logger |-> <<[level |-> ParseLevel(text).level]>>, err |-> NilError]

\* logger.InitGlobal(cfg)
InitGlobal(text, buildErr) ==
    /\ logRet' = [fn |-> "InitGlobal", arg |-> text, err |-> New(text, buildErr).err]
    /\ globalLogger' = IF New(text, buildErr).err # NilError
                       THEN globalLogger
                       ELSE New(text, buildErr).logger
    /\ UNCHANGED <<svars, hvars, logOut>>

\* logger.GetGlobal(): the global logger, or a development logger (debug
\* level) when none is set
GetGlobal == IF globalLogger = << >> THEN [level |-> "debug"] ELSE globalLogger[1]

\* a zap logger writes an entry of level lv only when lv is at or above its
\* level
Enabled(l, lv) == LevelValue(lv) >= LevelValue(l.level)

\* l.Info(msg, ...) and its siblings: the log after the call
Write1(l, entry) == IF Enabled(l, entry.level) THEN Append(logOut, entry) ELSE logOut

\* the bound on the length of the recorded log
MaxLog == 2

\* logger.Debug / Info / Warn / Error(msg)
GlobalLog(lv) ==
    /\ Len(logOut) < MaxLog
    /\ logOut' = Write1(GetGlobal, [level |-> lv, msg |-> "msg", new_level |-> ""])
    /\ UNCHANGED <<svars, hvars, globalLogger, logRet>>

\* SetGlobalLevel as it would be if a call before initialization were
\* ignored without an error.
SetGlobalLevelSilent(level) ==
    /\ globalLogger = << >> \/ Len(logOut) < MaxLog
    /\ IF globalLogger = << >>
       THEN /\ logRet' = [fn |-> "SetGlobalLevel", arg |-> level, err |-> NilError]
            /\ UNCHANGED <<globalLogger, logOut>>
       ELSE IF ~ParseLevel(level).ok
            THEN /\ logRet' = [fn |-> "SetGlobalLevel", arg |-> level,
                               err |-> "invalid log level"]
                 /\ UNCHANGED <<globalLogger, logOut>>
            ELSE /\ logOut' = Write1(globalLogger[1],
                                  [level |-> "info", msg |-> "Log level change requested",
                                   new_level |-> level])
                 /\ logRet' = [fn |-> "SetGlobalLevel", arg |-> level, err |-> NilError]
                 /\ UNCHANGED globalLogger
    /\ UNCHANGED <<svars, hvars>>

\* SetGlobalLevel as it would be if it applied the parsed level to the
\* global logger.
SetGlobalLevelApplies(level) ==
    /\ globalLogger = << >> \/ Len(logOut) < MaxLog
    /\ IF globalLogger = << >>
       THEN /\ logRet' = [fn |-> "SetGlobalLevel", arg |-> level,
                          err |-> "global logger not initialized"]
            /\ UNCHANGED <<globalLogger, logOut>>
       ELSE IF ~ParseLevel(level).ok
            THEN /\ logRet' = [fn |-> "SetGlobalLevel", arg |-> level,
                               err |-> "invalid log level"]
                 /\ UNCHANGED <<globalLogger, logOut>>
            ELSE /\ logOut' = Write1(globalLogger[1],
                                  [level |-> "info", msg |-> "Log level change requested",
                                   new_level |-> level])
                 /\ logRet' = [fn |-> "SetGlobalLevel", arg |-> level, err |-> NilError]
                 /\ globalLogger' = <<[level |-> ParseLevel(level).level]>>
    /\ UNCHANGED <<svars, hvars>>

\* logger.SetGlobalLevel(level)
SetGlobalLevel(level) ==
    /\ globalLogger = << >> \/ Len(logOut) < MaxLog
    /\ IF globalLogger = << >>
       THEN /\ logRet' = [fn |-> "SetGlobalLevel", arg |-> level,
                          err |-> "global logger not initialized"]
            /\ UNCHANGED <<globalLogger, logOut>>
       ELSE IF ~ParseLevel(level).ok
            THEN /\ logRet' = [fn |-> "SetGlobalLevel", arg |-> level,
                               err |-> "invalid log level"]
                 /\ UNCHANGED <<globalLogger, logOut>>
            ELSE /\ logOut' = Write1(globalLogger[1],
                                  [level |-> "info", msg |-> "Log level change requested",
                                   new_level |-> level])
                 /\ logRet' = [fn |-> "SetGlobalLevel", arg |-> level, err |-> NilError]
                 /\ UNCHANGED globalLogger
    /\ UNCHANGED <<svars, hvars>>

NextLogger ==
    \/ \E text \in LevelTexts, buildErr \in BOOLEAN : InitGlobal(text, buildErr)
    \/ \E lv \in LevelNames : GlobalLog(lv)
    \/ \E level \in LevelTexts : SetGlobalLevel(level)

Init == InitShutdown /\ InitHealth /\ InitLogger

SpecShutdown == Init /\ [][NextShutdown]_vars

SpecLogger == Init /\ [][NextLogger]_vars

SpecHealth == Init /\ [][NextHealth]_vars

SpecLiveness == Init /\ [][NextLiveness]_vars

\* the three handlers and direct CheckHealth calls, with the registry
\* changing alongside them
NextHandlers ==
    \/ NextLiveness
    \/ CheckHealth
    \/ \E encErr \in BOOLEAN : HTTPHandler(encErr)

SpecHandlers == Init /\ [][NextHandlers]_vars

\* one goroutine triggers the shutdown and the deadline of its ctx may pass
\* at any moment of the call
NextDeadline ==
    \/ \E fn \in HookFns : AddHook(fn)
    \/ Listen("main")
    \/ WaitForShutdown("main")
    \/ Signal
    \/ RecvSignal("main")
    \/ CallShutdown("main")
    \/ SnapshotHooks("main")
    \/ HookStart("main")
    \/ \E err \in BOOLEAN : HookReturn("main", err)
    \/ ShutdownReturn("main")
    \/ Exit("main")
    \/ Timeout("main")

SpecDeadline == Init /\ [][NextDeadline]_vars

\* the three endpoints and direct CheckHealth calls served by a process that
\* changes its registry only between passes (as cmd/health-test does: the
\* AddChecker calls come first, then the requests)
NextEndpoints ==
    \/ LivenessHandler
    \/ LivenessDone
    \/ hpc = "idle" /\ CallMutator
    \/ Lock
    \/ \E n \in Names, c \in Checkers : AddChecker(n, c)
    \/ \E n \in Names : RemoveChecker(n)
    \/ mpc = "idle" /\ CallCheckHealth
    \/ RLock
    \/ SnapshotAndRUnlock
    \/ Fork
    \/ \E n \in Names : CheckerDone(n)
    \/ CloseResults
    \/ Collect
    \/ CheckHealth
    \/ \E encErr \in BOOLEAN : HTTPHandler(encErr)
    \/ ReadinessHandler
    \/ RequestDone

SpecEndpoints == Init /\ [][NextEndpoints]_vars

\* the registry holds checkers of every variant; it changes only between
\* passes
NextVariants ==
    \/ hpc = "idle" /\ CallMutator
    \/ Lock
    \/ \E n \in Names, c \in VariantCheckers : AddChecker(n, c)
    \/ \E n \in Names : RemoveChecker(n)
    \/ mpc = "idle" /\ CallCheckHealth
    \/ RLock
    \/ SnapshotAndRUnlock
    \/ Fork
    \/ \E n \in Names : CheckerDone(n)
    \/ CloseResults
    \/ Collect
    \/ CheckHealth
    \/ \E encErr \in BOOLEAN : HTTPHandler(encErr)
    \/ ReadinessHandler
    \/ RequestDone

SpecVariants == Init /\ [][NextVariants]_vars

\* Shutdown called directly by goroutines of a process that stays alive,
\* while hooks are registered and the deadlines of the calls pass
NextCalls ==
    \/ \E fn \in HookFns : AddHook(fn)
    \/ \E t \in Callers : CallShutdown(t)
    \/ \E t \in Callers : SnapshotHooks(t)
    \/ \E t \in Callers : HookStart(t)
    \/ \E t \in Callers, err \in BOOLEAN : HookReturn(t, err)
    \/ \E t \in Callers : ShutdownReturn(t)
    \/ \E t \in Callers : Timeout(t)

\* the goroutine inside Shutdown is scheduled, and every hook it calls
\* returns
FairCalls ==
    \A t \in Callers :
        /\ WF_vars(SnapshotHooks(t))
        /\ WF_vars(HookStart(t))
        /\ WF_vars(\E err \in BOOLEAN : HookReturn(t, err))
        /\ WF_vars(ShutdownReturn(t))

SpecFairCalls == Init /\ [][NextCalls]_vars /\ FairCalls

\* the Go scheduler runs every runnable goroutine: the goroutines of a pass
\* (checkers that return, the closer, the collector and the caller) are not
\* starved
FairPass ==
    /\ WF_vars(Fork)
    /\ WF_vars(\E n \in Names : CheckerDone(n))
    /\ WF_vars(CloseResults)
    /\ WF_vars(Collect)
    /\ WF_vars(CheckHealth \/ ReadinessHandler \/ \E encErr \in BOOLEAN : HTTPHandler(encErr))

SpecFairPass == Init /\ [][NextEndpoints]_vars /\ FairPass

\* some Listen or WaitForShutdown call has received its signal
SignalReceived ==
    \E t \in Callers :
        /\ kind[t] \in {"Listen", "WaitForShutdown"}
        /\ pc[t] \in {"begin", "loop", "hook", "done"}

\* a service as cmd/health-test and docs/health-checks.md set it up: the
\* checkers are registered, then the hooks, then main waits for the signal;
\* readiness requests arrive once the signal has been received, while the
\* process runs
NextService ==
    \/ hooks = << >> /\ pc["main"] = "idle" /\ CallMutator
    \/ Lock
    \/ \E n \in Names, c \in {CustomOK, CustomDown} : AddChecker(n, c)
    \/ \E n \in Names : RemoveChecker(n)
    \/ mpc = "idle" /\ pc["main"] = "idle" /\ \E fn \in HookFns : AddHook(fn)
    \/ mpc = "idle" /\ Listen("main")
    \/ mpc = "idle" /\ WaitForShutdown("main")
    \/ Signal
    \/ RecvSignal("main")
    \/ SnapshotHooks("main")
    \/ HookStart("main")
    \/ \E err \in BOOLEAN : HookReturn("main", err)
    \/ ShutdownReturn("main")
    \/ Exit("main")
    \/ SignalReceived /\ ~exited /\ CallCheckHealth
    \/ ~exited /\ RLock
    \/ ~exited /\ SnapshotAndRUnlock
    \/ ~exited /\ Fork
    \/ ~exited /\ \E n \in Names : CheckerDone(n)
    \/ ~exited /\ CloseResults
    \/ ~exited /\ Collect
    \/ ~exited /\ ReadinessHandler
    \/ ~exited /\ RequestDone

SpecService == Init /\ [][NextService]_vars

(***************************************************************************)
(* Properties of shutdown.Manager                                          *)
(***************************************************************************)
Reverse(q) == [k \in 1..Len(q) |-> q[Len(q) - k + 1]]

IsPrefix(p, q) == Len(p) <= Len(q) /\ \A k \in 1..Len(p) : p[k] = q[k]

\* the hooks a Shutdown call has run to completion, in the order they returned
RanHooks(t) == [k \in 1..Len(ran[t]) |-> ran[t][k].hook]

\* caller t has entered hook h (it is executing it or it has returned)
Entered(t, h) ==
    \/ \E k \in 1..Len(ran[t]) : ran[t][k].hook = h
    \/ pc[t] = "hook" /\ HookAt(snap[t], idx[t]) = h

\* C1: one Shutdown call invokes the hooks registered before it in strict
\* reverse registration order: the k-th hook to return is the one at
\* position len-k of the registered sequence, a hook at position i is
\* entered only when exactly the hooks at positions above i have returned,
\* and the call returns only when all of them have.
ReverseRegistrationOrder ==
    \A t \in Callers :
        /\ pc[t] \in {"loop", "hook", "done"} => IsPrefix(snap[t], hooks)
        /\ IsPrefix(RanHooks(t), Reverse(snap[t]))
        /\ \A k \in 1..Len(ran[t]) : ran[t][k].index = Len(snap[t]) - k
        /\ pc[t] = "hook" =>
              /\ idx[t] \in 0..(Len(snap[t]) - 1)
              /\ {ran[t][k].index : k \in 1..Len(ran[t])}
                    = (idx[t] + 1)..(Len(snap[t]) - 1)
        /\ pc[t] = "done" => RanHooks(t) = Reverse(snap[t])

\* C1 witness: a Shutdown call has returned after running three hooks, the
\* last registered first.
ThreeHooksRanInReverse ==
    \E t \in Callers :
        /\ pc[t] = "done"
        /\ snap[t] = <<1, 2, 3>>
        /\ RanHooks(t) = <<3, 2, 1>>

\* C2: only the first trigger of Shutdown executes hooks; every later trigger
\* is a no-op, so no registered hook is entered by more than one trigger.
ShutdownEnteredOnce ==
    /\ Cardinality({t \in Callers : pc[t] \in {"loop", "hook", "done"}
                                     /\ (ran[t] # << >> \/ pc[t] = "hook")}) <= 1
    /\ \A h \in HookFns : Cardinality({t \in Callers : Entered(t, h)}) <= 1

\* C3: a hook that returns an error does not end the sequence: after any
\* hook has returned, failed or not, the loop goes on to the next lower
\* position while one is left, and a call that has returned has run every
\* hook of its snapshot in reverse order whichever of them failed.
FailingHookDoesNotAbort ==
    \A t \in Callers :
        /\ (pc[t] = "loop" /\ Len(ran[t]) < Len(snap[t])) =>
              (LoopCond(idx[t]) /\ idx[t] = Len(snap[t]) - Len(ran[t]) - 1)
        /\ pc[t] = "done" =>
              /\ RanHooks(t) = Reverse(snap[t])
              /\ failLog[t] = SelectSeq([k \in 1..Len(ran[t]) |-> ran[t][k].index],
                                        LAMBDA i : ran[t][Len(snap[t]) - i].err)

\* C3 witness: of three hooks the middle one failed and the two others
\* succeeded, and the call ran all three.
MiddleHookFailedAllRan ==
    \E t \in Callers :
        /\ pc[t] = "done"
        /\ Len(ran[t]) = 3
        /\ ~ran[t][1].err /\ ran[t][2].err /\ ~ran[t][3].err
        /\ failLog[t] = <<1>>

(***************************************************************************)
(* Properties of health.Manager                                            *)
(***************************************************************************)
\* every CheckResult the pass holds: buffered, collected or returned
PassResults ==
    {resultCh[k] : k \in 1..Len(resultCh)}
        \cup {checks[k] : k \in 1..Len(checks)}
        \cup {health.checks[k] : k \in 1..Len(health.checks)}

ReportNames == {health.checks[k].name : k \in 1..Len(health.checks)}

ReportStatuses == {health.checks[k].status : k \in 1..Len(health.checks)}

\* C4: a report returned by CheckHealth holds exactly N outcomes for the N
\* checkers registered when the pass took its snapshot, one under each
\* registered name, whatever the order in which the checkers finished.
OneOutcomePerChecker ==
    hpc = "returned" =>
        /\ Len(health.checks) = Cardinality(DOMAIN snapshot)
        /\ ReportNames = DOMAIN snapshot

\* C4 witness: a report of two outcomes whose checkers finished in the
\* order opposite to their names.
TwoOutcomesOutOfOrder ==
    /\ hpc = "returned"
    /\ Len(health.checks) = 2
    /\ health.checks[1].name = 2
    /\ health.checks[2].name = 1

\* C5: in every returned report the aggregate status is unhealthy exactly
\* when one of the report's own outcomes is unhealthy.
AggregateUnhealthyIff ==
    hpc = "returned" =>
        (health.status = StatusUnhealthy <=> StatusUnhealthy \in ReportStatuses)

\* C5 witness: reports over mixes of statuses, one with an unknown and an
\* unhealthy outcome.
MixedReportUnhealthy ==
    /\ hpc = "returned"
    /\ ReportStatuses = {StatusUnknown, StatusUnhealthy}
    /\ health.status = StatusUnhealthy

\* C6: whatever AddChecker / RemoveChecker do to the registry after a pass
\* has copied it, the pass runs one goroutine per name of its copy and every
\* result it buffers, collects or reports is the result of the checker the
\* copy holds under that name.
PassIsolatedFromRegistry ==
    hpc \in {"collect", "returned"} =>
        /\ DOMAIN gor = DOMAIN snapshot
        /\ \A r \in PassResults :
              /\ r.name \in DOMAIN snapshot
              /\ r = SetName(Check(snapshot[r.name]), r.name)
        /\ hpc = "returned" => ReportNames = DOMAIN snapshot

\* C6 witness: while a pass is in flight the registry has changed under it:
\* one name of the copy was removed (its result is already collected), and
\* another, whose check is still running, now maps to a different checker.
RegistryChangedMidPass ==
    /\ hpc = "collect"
    /\ \E n \in DOMAIN snapshot, m \in DOMAIN snapshot :
          /\ gor[n] = "running"
          /\ n \in DOMAIN checkers
          /\ checkers[n] # snapshot[n]
          /\ m \notin DOMAIN checkers
          /\ \E k \in 1..Len(checks) : checks[k].name = m

\* C7: the registry lock is never held while checkers execute, a writer and
\* a reader never hold it together, and whoever waits for the lock waits
\* only for a holder whose next step releases it without running a checker.
LockNotHeldWhileChecking ==
    /\ ~(writer /\ readers > 0)
    /\ hpc \in {"fork", "collect", "returned"} => readers = 0
    /\ (\E n \in DOMAIN gor : gor[n] = "running") => readers = 0
    /\ mpc = "lockwait" => (ENABLED Lock \/ ENABLED SnapshotAndRUnlock)
    /\ mpc = "locked" => ENABLED (\E n \in Names : RemoveChecker(n))
    /\ hpc = "rlockwait" =>
          (ENABLED RLock \/ ENABLED Lock \/ ENABLED (\E n \in Names : RemoveChecker(n)))

\* C7 witness: AddChecker has obtained the write lock while a checker of an
\* earlier snapshot that never returns is running.
WriterLockedWhileCheckerHangs ==
    /\ mpc = "locked"
    /\ writer
    /\ \E n \in DOMAIN gor : gor[n] = "running" /\ ~snapshot[n].returns

\* C8: a liveness request can always be served, its response is 200 "alive",
\* and serving it neither reads nor changes the registry, the lock or a
\* CheckHealth pass.
LivenessIndependent ==
    /\ [](live = NewWriter => ENABLED LivenessHandler)
    /\ [](live # NewWriter =>
            (live.code = 200 /\ live.body = <<[type |-> "text", data |-> "alive"]>>))
    /\ [][live' # live => UNCHANGED <<regvars, passvars>>]_vars

\* C8 witness: liveness answered while an unhealthy checker is registered
\* and a checker that never returns is running.
AliveWhileCheckersFail ==
    /\ live # NewWriter
    /\ \E n \in DOMAIN checkers : checkers[n] = CustomDown
    /\ \E n \in DOMAIN gor : gor[n] = "running" /\ ~snapshot[n].returns

\* C9: the readiness handler's response is 503 "not ready" exactly when the
\* aggregate of the pass it ran is unhealthy and 200 "ready" otherwise; the
\* body is that one token.
ReadinessFollowsAggregate ==
    (hpc = "returned" /\ hkind = "ReadinessHandler") =>
        /\ health.checks = checks
        /\ health.status = StatusUnhealthy =>
              resp = [code |-> 503, body |-> <<[type |-> "text", data |-> "not ready"]>>]
        /\ health.status # StatusUnhealthy =>
              resp = [code |-> 200, body |-> <<[type |-> "text", data |-> "ready"]>>]

\* C9 witness: readiness answered 503 "not ready" for an unhealthy pass.
ReadinessNotReady ==
    /\ hpc = "returned"
    /\ hkind = "ReadinessHandler"
    /\ resp.code = 503
    /\ StatusUnhealthy \in ReportStatuses

\* the JSON document of a diagnostic response whose encoding succeeded
Document == resp.body[1].data

Encoded == Len(resp.body) = 1 /\ resp.body[1].type = "json"

\* C10: the diagnostic handler answers 200 for a healthy and 503 for an
\* unhealthy aggregate of the pass it ran, and the document it returns is
\* the full report: the aggregate status and, for every registered name,
\* an entry with that checker's status and message.
DiagnosticReturnsFullReport ==
    (hpc = "returned" /\ hkind = "HTTPHandler") =>
        /\ health.checks = checks
        /\ health.status = StatusHealthy => resp.code = 200
        /\ health.status = StatusUnhealthy => resp.code = 503
        /\ Encoded =>
              /\ Document.status = health.status
              /\ \A n \in DOMAIN snapshot :
                    \E k \in 1..Len(checks) :
                        LET e == Document.checks[k]
                            r == Check(snapshot[n])
                        IN  /\ e.name = n
                            /\ e.status = r.status
                            /\ IF r.message = ""
                               THEN "message" \notin DOMAIN e
                               ELSE "message" \in DOMAIN e /\ e.message = r.message

\* C10 witness: one healthy and one unhealthy Custom checker: 503 with a
\* document that names both and carries the message "down".
DiagnosticOneUpOneDown ==
    /\ hpc = "returned"
    /\ hkind = "HTTPHandler"
    /\ snapshot = [n \in {1, 2} |-> IF n = 1 THEN CustomOK ELSE CustomDown]
    /\ resp.code = 503
    /\ Encoded
    /\ \E k \in 1..2 : Document.checks[k].name = 2 /\ Document.checks[k].message = "down"
    /\ \E k \in 1..2 : Document.checks[k].name = 1 /\ Document.checks[k].status = StatusHealthy

\* C11: with no checker registered the system is vacuously healthy: a pass
\* over the empty registry returns the aggregate healthy with no outcomes,
\* /health and /health/ready answer 200 for it, and /health/live answers 200.
VacuouslyHealthy ==
    /\ (hpc = "returned" /\ DOMAIN snapshot = {}) =>
          /\ health.status = StatusHealthy
          /\ health.checks = << >>
          /\ hkind \in {"HTTPHandler", "ReadinessHandler"} => resp.code = 200
    /\ (DOMAIN checkers = {} /\ live # NewWriter) => live.code = 200

\* C11 witness: the registry is empty, /health has answered 200 with an
\* empty report and /health/live has answered 200.
EmptyRegistryAllOK ==
    /\ DOMAIN checkers = {}
    /\ DOMAIN snapshot = {}
    /\ hpc = "returned"
    /\ hkind = "HTTPHandler"
    /\ Encoded
    /\ Document.status = StatusHealthy
    /\ resp.code = 200
    /\ live # NewWriter
    /\ live.code = 200

\* C12: when the diagnostic handler fails to serialize the report, the
\* caller receives the status 500, not 200 or 503.
SerializationFaultIs500 ==
    (hpc = "returned" /\ hkind = "HTTPHandler" /\ ~Encoded) => resp.code = 500

\* C13: every response of the three health handlers carries the status 200
\* or 503, whatever the registry holds and whatever the checkers return,
\* a failed serialization of the report included.
OnlyOKOrUnavailable ==
    /\ (hpc = "returned" /\ hkind \in {"HTTPHandler", "ReadinessHandler"}) =>
          resp.code \in {200, 503}
    /\ live # NewWriter => live.code \in {200, 503}

\* C13 witness: the report of an unhealthy pass could not be serialized and
\* the response still carries 503, while /health/live has answered.
FaultyEncodeStill503 ==
    /\ hpc = "returned"
    /\ hkind = "HTTPHandler"
    /\ ~Encoded
    /\ health.status = StatusUnhealthy
    /\ resp.code = 503
    /\ live # NewWriter

\* C14: once the deadline of its context has passed, Shutdown starts no
\* further hook: it completes at that point even if hooks remain.
DeadlineEndsShutdown ==
    [][\A t \in Callers :
          (expired[t] /\ pc[t] = "loop") => pc'[t] \in {"loop", "done"}]_vars

\* C15: the hooks of one Shutdown call share one context whose deadline is
\* fixed when the call starts: there is no deadline before the call, and
\* once it has passed it stays passed for every later hook of the call.
SharedDeadline ==
    /\ [](\A t \in Callers : pc[t] \in {"idle", "sigwait"} => ~expired[t])
    /\ [][\A t \in Callers : expired[t] => expired'[t]]_vars

\* C15 witness: the deadline passed while hooks of the snapshot remain; an
\* earlier hook has used up the budget of the ones still to run.
BudgetUsedUpHooksRemain ==
    \E t \in Callers :
        /\ pc[t] = "loop"
        /\ expired[t]
        /\ Len(ran[t]) >= 1
        /\ LoopCond(idx[t])

\* C16: at most one shutdown hook of the manager is executing in every
\* reachable state, whatever calls triggered the shutdown.
OneHookAtATime ==
    Cardinality({t \in Callers : pc[t] = "hook"}) <= 1

\* C17: once a Shutdown has begun, no AddHook call changes the hook sequence.
HooksFrozenAfterShutdownBegan ==
    [][(\E t \in Callers : pc[t] \in {"begin", "loop", "hook", "done"})
          => hooks' = hooks]_vars

AfterAdd(m, name, checker) ==
    /\ DOMAIN checkers' = (DOMAIN m) \cup {name}
    /\ checkers'[name] = checker
    /\ \A n \in (DOMAIN m) \ {name} : checkers'[n] = m[n]

\* what the registry must hold after RemoveChecker(name)
AfterRemove(m, name) ==
    /\ DOMAIN checkers' = (DOMAIN m) \ {name}
    /\ \A n \in (DOMAIN m) \ {name} : checkers'[n] = m[n]

\* C19: AddChecker(name, c) leaves c registered under name, replacing an
\* earlier registration, and RemoveChecker(name) leaves none, so the
\* registry holds for each name the latest registration not yet removed;
\* a pass that takes its snapshot after the call returned copies exactly
\* that mapping.
LastRegistrationWins ==
    /\ [](mpc = "locked" =>
            /\ \A n \in Names, c \in Checkers :
                  ENABLED (AddChecker(n, c) /\ AfterAdd(checkers, n, c))
            /\ \A n \in Names :
                  ENABLED (RemoveChecker(n) /\ n \notin DOMAIN checkers'))
    /\ [][(hpc = "rlocked" /\ hpc' # "rlocked") =>
            mpc # "locked" /\ snapshot' = checkers]_vars

\* C19 witness: a name has been registered again with another checker since
\* the pass in flight took its snapshot, and that call has returned.
ReplacedSinceSnapshot ==
    /\ hpc = "collect"
    /\ mpc = "idle"
    /\ \E n \in (DOMAIN snapshot) \cap (DOMAIN checkers) :
          snapshot[n] = CustomOK /\ checkers[n] = CustomDown

\* C20: RemoveChecker(name) can always be completed; it removes the checker
\* registered under name, changes nothing when there is none, and leaves
\* every checker registered under another name as it was.
RemoveLeavesOthers ==
    mpc = "locked" =>
        \A n \in Names :
            ENABLED (/\ RemoveChecker(n)
                     /\ AfterRemove(checkers, n)
                     /\ n \notin DOMAIN checkers => checkers' = checkers)

\* C20 witness: a name of the snapshot of the pass in flight has been
\* removed since, and the other name still holds the checker it had.
RemovedSinceSnapshot ==
    /\ hpc = "collect"
    /\ mpc = "idle"
    /\ \E n \in (DOMAIN snapshot) \ (DOMAIN checkers) :
          \E m \in (DOMAIN checkers) \ {n} :
              m \in DOMAIN snapshot /\ checkers[m] = snapshot[m]

\* C25: a hook failure does not change the exit path: whenever the process
\* was ended by a WaitForShutdown call whose Shutdown has returned, the exit
\* status is 0, whether none, some or all of its hooks returned an error.
ExitStatusIgnoresHookErrors ==
    [][(~exited /\ exited' /\ \E t \in Callers : sigChan[t] # "none") =>
          /\ exitStatus' = <<0>>
          /\ \E t \in Callers : kind[t] = "WaitForShutdown" /\ pc[t] = "done"]_vars

\* C25 witness: the process has exited with status 0 after a WaitForShutdown
\* call all of whose three hooks failed.
ExitedZeroAllHooksFailed ==
    \E t \in Callers :
        /\ exited
        /\ exitStatus = <<0>>
        /\ kind[t] = "WaitForShutdown"
        /\ pc[t] = "done"
        /\ Len(ran[t]) = 3
        /\ \A k \in 1..3 : ran[t][k].err

\* C26: SetGlobalLevel called while no global logger is set returns the
\* error "global logger not initialized" and changes nothing: the global
\* logger stays unset and nothing is written.
SetLevelBeforeInitFails ==
    /\ [](globalLogger = << >> =>
            \A level \in LevelTexts : ENABLED SetGlobalLevel(level))
    /\ [][(globalLogger = << >> /\ logRet'.fn = "SetGlobalLevel" /\ logRet' # logRet) =>
            /\ logRet'.err = "global logger not initialized"
            /\ UNCHANGED <<globalLogger, logOut>>]_vars

\* C26 witness: SetGlobalLevel("error") has returned the error while the
\* global logger is unset.
SetLevelRejectedUninitialized ==
    /\ globalLogger = << >>
    /\ logRet = [fn |-> "SetGlobalLevel", arg |-> "error",
                 err |-> "global logger not initialized"]

\* the pass has returned its report
Reported == hpc = "returned"

\* the outcome a report holds under name n
Outcome(n) ==
    health.checks[CHOOSE k \in 1..Len(health.checks) : health.checks[k].name = n]

\* the probe of checker c meets a fault
Faulted(c) ==
    CASE c.variant = "Database" -> c.pingErr # ""
      [] c.variant = "Redis" -> c.pingErr # "" \/ c.pong # "PONG"
      [] c.variant = "Moshi" ->
            c.reqErr # "" \/ c.doErr # "" \/ c.statusCode \notin 200..299
      [] c.variant = "Custom" -> ~c.healthy
      [] OTHER -> FALSE

MoshiVerdict ==
    Reported =>
        \A n \in DOMAIN snapshot :
            snapshot[n].variant = "Moshi" =>
                LET c == snapshot[n]
                    o == Outcome(n)
                    responded == c.reqErr = "" /\ c.doErr = ""
                IN  /\ o.status = StatusHealthy <=>
                          (responded /\ c.statusCode >= 200 /\ c.statusCode < 300)
                    /\ o.status # StatusHealthy => o.status = StatusUnhealthy
                    /\ responded =>
                          /\ {"status_code", "content_type"} \subseteq DOMAIN o.metadata
                          /\ o.metadata.status_code = ToString(c.statusCode)
                          /\ o.metadata.content_type = c.contentType

\* C27 witness: a 299 answer is reported healthy and a 300 answer unhealthy,
\* each with its status code in the metadata.
Moshi299Up300Down ==
    /\ Reported
    /\ snapshot = [n \in {1, 2} |-> IF n = 1 THEN MoshiResponds(299, "application/json")
                                    ELSE MoshiResponds(300, "")]
    /\ Outcome(1).status = StatusHealthy
    /\ Outcome(1).metadata.status_code = "299"
    /\ Outcome(2).status = StatusUnhealthy
    /\ Outcome(2).metadata.status_code = "300"

\* C28: the Custom checker is a direct adapter of its checkFunc: the status
\* is healthy iff checkFunc returned healthy = true and unhealthy otherwise,
\* and the message and the metadata are the ones checkFunc returned.
CustomIsAdapter ==
    Reported =>
        \A n \in DOMAIN snapshot :
            snapshot[n].variant = "Custom" =>
                LET c == snapshot[n]
                    o == Outcome(n)
                IN  /\ o.status = (IF c.healthy THEN StatusHealthy ELSE StatusUnhealthy)
                    /\ o.message = c.message
                    /\ DOMAIN o.metadata = DOMAIN c.metadata
                    /\ \A key \in DOMAIN c.metadata : o.metadata[key] = c.metadata[key]

\* C28 witness: a checkFunc returning (false, "down", {code: x}) is reported
\* unhealthy with that message and metadata, next to one returning true.
CustomDownAdapted ==
    /\ Reported
    /\ snapshot = [n \in {1, 2} |-> IF n = 1 THEN CustomDown ELSE CustomOK]
    /\ Outcome(1).status = StatusUnhealthy
    /\ Outcome(1).message = "down"
    /\ Outcome(1).metadata.code = "x"
    /\ Outcome(2).status = StatusHealthy

\* C30: every outcome of a report is named by the registry key its checker
\* had in the snapshot, whatever name the checker produced or was built
\* with: the names are pairwise distinct, they are the snapshot's keys, and
\* the outcome under a key is the one that key's checker produced.
NamesAreRegistryKeys ==
    Reported =>
        /\ Len(health.checks) = Cardinality(DOMAIN snapshot)
        /\ {health.checks[k].name : k \in 1..Len(health.checks)} = DOMAIN snapshot
        /\ \A n \in DOMAIN snapshot :
              /\ Outcome(n).status = Check(snapshot[n]).status
              /\ Outcome(n).message = Check(snapshot[n]).message

\* C30 witness: a Custom checker built with the name "system_resources" is
\* registered under key 2 next to a database checker under key 1; the report
\* names them 1 and 2.
CustomReportedUnderKey ==
    /\ Reported
    /\ snapshot = [n \in {1, 2} |-> IF n = 1 THEN DatabaseUp ELSE CustomDown]
    /\ snapshot[2].name = "system_resources"
    /\ Outcome(1).message = "Database connection healthy"
    /\ Outcome(2).message = "down"

\* C21: CheckHealth is a fork-join: it has returned only when every checker
\* of its snapshot has returned; once forked over checkers that all return,
\* it returns; once forked over a checker that never returns, it never does.
ForkJoin ==
    /\ [](Reported => \A n \in DOMAIN snapshot : gor[n] = "done")
    /\ (hpc \in {"fork", "collect"} /\ \A n \in DOMAIN snapshot : snapshot[n].returns)
          ~> Reported
    /\ []((hpc \in {"fork", "collect"} /\ \E n \in DOMAIN snapshot : ~snapshot[n].returns)
              => [](hpc \in {"fork", "collect"}))

\* C21 witness: one checker of the pass has returned and the other never
\* will; the pass is still collecting.
StalledOnHangingChecker ==
    /\ hpc = "collect"
    /\ snapshot = [n \in {1, 2} |-> IF n = 1 THEN CustomOK ELSE CustomHang]
    /\ gor[1] = "done"
    /\ gor[2] = "running"
    /\ closed = FALSE
    /\ Len(checks) = 1

\* C23: whenever /health/ready answers 200, every outcome of the pass it ran
\* is healthy.
ReadyOnlyIfAllHealthy ==
    (Reported /\ hkind = "ReadinessHandler" /\ resp.code = 200) =>
        \A k \in 1..Len(health.checks) : health.checks[k].status = StatusHealthy

\* C24: every readiness request handled after the shutdown signal was
\* received gets a failure status, before and while the hooks execute.
ReadinessFailsAfterSignal ==
    (Reported /\ hkind = "ReadinessHandler" /\ SignalReceived /\ ~exited) =>
        resp.code = 503

\* C29: within one pass every checker of the snapshot is invoked exactly
\* once, each in a goroutine of its own: after the fork there is one
\* goroutine per key of the snapshot, and a goroutine that has finished is
\* not run again in that pass.
EachCheckerInvokedOnce ==
    /\ [](hpc \in {"collect", "returned"} => DOMAIN gor = DOMAIN snapshot)
    /\ [][\A n \in DOMAIN gor :
            (hpc = "collect" /\ gor[n] = "done" /\ hpc' # "idle") =>
                gor'[n] = "done"]_vars
    /\ [](hpc \in {"collect", "returned"} =>
            Len(resultCh) + Len(checks)
                = Cardinality({n \in DOMAIN gor : gor[n] = "done"}))

\* C29 witness: the two checkers of a pass are executing at the same time.
TwoCheckersExecuting ==
    /\ hpc = "collect"
    /\ DOMAIN snapshot = {1, 2}
    /\ \A n \in {1, 2} : gor[n] = "running" /\ snapshot[n].returns

\* C31: the result channel has room for one result per checker of the
\* snapshot, so a checker goroutine that has yet to send finds room; the
\* channel is closed only when every goroutine has sent, so none sends on a
\* closed channel; and when the collector's range ends it has received one
\* result per checker.
FanInNeverBlocks ==
    hpc = "collect" =>
        /\ Len(resultCh) <= Capacity(snapshot)
        /\ \A n \in DOMAIN gor :
              gor[n] = "running" => Len(resultCh) < Capacity(snapshot)
        /\ closed => \A n \in DOMAIN gor : gor[n] = "done"
        /\ RangeEnded => Len(checks) = Cardinality(DOMAIN snapshot)

\* C31 witness: both checkers have sent before the collector received
\* anything: the buffer is full and the channel still open.
BufferFullBeforeCollect ==
    /\ hpc = "collect"
    /\ Cardinality(DOMAIN snapshot) = 2
    /\ Len(resultCh) = 2
    /\ checks = << >>
    /\ ~closed

\* what a report says, order of the checks left aside
ReportSet == {<<health.checks[k].name, health.checks[k].status, health.checks[k].message>> :
                 k \in 1..Len(health.checks)}

\* what a pass over snapshot m must report, by m alone
ExpectedSet(m) ==
    {<<n, Check(m[n]).status, Check(m[n]).message>> : n \in DOMAIN m}

ExpectedStatus(m) ==
    IF \E n \in DOMAIN m : Check(m[n]).status = StatusUnhealthy
    THEN StatusUnhealthy
    ELSE StatusHealthy

\* C32: the result of a pass does not depend on scheduling: the aggregate
\* status and the set of (name, status, message) outcomes of a returned
\* report are functions of the snapshot, whatever the order in which the
\* checkers finished and the results were collected.
ReportIsFunctionOfSnapshot ==
    Reported =>
        /\ health.status = ExpectedStatus(snapshot)
        /\ ReportSet = ExpectedSet(snapshot)

\* C32 witness: the healthy checker of key 2 finished before the unhealthy
\* one of key 1; the report is unhealthy all the same.
LateUnhealthyStillCounts ==
    /\ Reported
    /\ Len(health.checks) = 2
    /\ health.checks[1].name = 2
    /\ health.checks[1].status = StatusHealthy
    /\ health.checks[2].name = 1
    /\ health.checks[2].status = StatusUnhealthy
    /\ health.status = StatusUnhealthy

\* C33: CheckHealth and the three handlers never modify the registry: the
\* mapping changes only in the step in which AddChecker or RemoveChecker
\* writes it, every step of a pass or of a liveness request leaves it as it
\* was, and a pass starts with nothing kept from an earlier one and runs
\* every checker of its snapshot.
HandlersLeaveRegistry ==
    /\ [][checkers' # checkers => (mpc = "locked" /\ mpc' = "idle")]_vars
    /\ [][(passvars' # passvars \/ live' # live) => checkers' = checkers]_vars
    /\ [](hpc = "fork" =>
            checks = << >> /\ resultCh = << >> /\ gor = << >> /\ health = NoHealth)
    /\ [][(hpc = "fork" /\ hpc' = "collect") =>
            \A n \in DOMAIN snapshot : gor'[n] = "running"]_vars

\* C33 witness: a diagnostic request has been answered and a liveness
\* request too, and the registry still holds the two checkers the pass
\* copied.
RegistryIntactAfterRequests ==
    /\ Reported
    /\ hkind = "HTTPHandler"
    /\ live # NewWriter
    /\ mpc = "idle"
    /\ DOMAIN checkers = {1, 2}
    /\ checkers = snapshot

\* C34: Shutdown runs against the snapshot it took under the mutex: the
\* snapshot is written only by the copy step and stays as it is while hooks
\* are added, a hook registered after the copy is never entered by that
\* call, and every hook the call runs is the one the registered sequence
\* holds at the index the loop was at.
ShutdownRunsItsSnapshot ==
    /\ [][\A t \in Callers :
             snap'[t] # snap[t] => (pc[t] = "begin" /\ pc'[t] = "loop")]_vars
    /\ [][\A t \in Callers :
             (hooks' # hooks /\ pc[t] \in {"loop", "hook", "done"}) =>
                 (snap'[t] = snap[t] /\ idx'[t] = idx[t] /\ ran'[t] = ran[t])]_vars
    /\ [](\A t \in Callers :
             pc[t] \in {"loop", "hook", "done"} =>
                 /\ \A h \in (Len(snap[t]) + 1)..Len(hooks) : ~Entered(t, h)
                 /\ \A k \in 1..Len(ran[t]) :
                       /\ ran[t][k].index \in 0..(Len(snap[t]) - 1)
                       /\ ran[t][k].hook = hooks[ran[t][k].index + 1]
                 /\ \A j, k \in 1..Len(ran[t]) :
                       j < k => ran[t][j].index > ran[t][k].index)

\* C34 witness: a third hook is registered while the call is in flight on
\* its snapshot of two; the call has run hook 2 and is inside hook 1, the
\* last one it will run.
HookAddedDuringShutdownSkipped ==
    /\ pc["main"] = "hook"
    /\ Len(snap["main"]) = 2
    /\ Len(hooks) = 3
    /\ RanHooks("main") = <<2>>
    /\ idx["main"] = 0

\* C35: when every hook returns, a Shutdown call that has started reaches
\* Done; at Done it has invoked each hook of its snapshot exactly once; and
\* with an empty snapshot the loop is not entered, so the call goes straight
\* to Done having invoked nothing.
ShutdownCompletes ==
    /\ \A t \in Callers : (pc[t] = "begin") ~> (pc[t] = "done")
    /\ [](\A t \in Callers :
             pc[t] = "done" =>
                 /\ Len(ran[t]) = Len(snap[t])
                 /\ \A h \in 1..Len(snap[t]) :
                       Cardinality({k \in 1..Len(ran[t]) : ran[t][k].hook = snap[t][h]}) = 1)
    /\ [](\A t \in Callers :
             (pc[t] = "loop" /\ snap[t] = << >>) =>
                 /\ ~LoopCond(idx[t])
                 /\ ran[t] = << >>
                 /\ ~ENABLED HookStart(t)
                 /\ ENABLED ShutdownReturn(t))

\* C35 witness: one call is done after running its three hooks, the other
\* is done over an empty snapshot and ran nothing.
BothCallsDone ==
    /\ pc["main"] = "done"
    /\ Len(snap["main"]) = 3
    /\ Len(ran["main"]) = 3
    /\ pc["listener"] = "done"
    /\ snap["listener"] = << >>
    /\ ran["listener"] = << >>

\* C36: the Redis checker is reported healthy exactly when the ping
\* succeeds with the reply "PONG", and unhealthy on a ping error or any
\* other reply; a failing Info query leaves the status healthy and only
\* drops the info_available entry of the metadata.
RedisHealthyIffPong ==
    Reported =>
        \A n \in DOMAIN snapshot :
            snapshot[n].variant = "Redis" =>
                LET c == snapshot[n]
                    o == Outcome(n)
                    ponged == c.pingErr = "" /\ c.pong = "PONG"
                IN  /\ (o.status = StatusHealthy) <=> ponged
                    /\ ~ponged => o.status = StatusUnhealthy
                    /\ ponged =>
                          /\ "ping_response" \in DOMAIN o.metadata
                          /\ o.metadata.ping_response = "PONG"
                          /\ ("info_available" \in DOMAIN o.metadata) <=> ~c.infoErr
                    /\ ~ponged => DOMAIN o.metadata = {}

\* C36 witness: a report holds a Redis checker whose ping answered PONG and
\* whose Info query failed, healthy without info_available, next to one
\* whose ping answered something else, unhealthy.
RedisInfoFailedStillHealthy ==
    /\ Reported
    /\ DOMAIN snapshot = {1, 2}
    /\ snapshot[1].variant = "Redis" /\ snapshot[2].variant = "Redis"
    /\ snapshot[1].pingErr = "" /\ snapshot[1].pong = "PONG" /\ snapshot[1].infoErr
    /\ snapshot[2].pingErr = "" /\ snapshot[2].pong = "LOADING"
    /\ Outcome(1).status = StatusHealthy
    /\ DOMAIN Outcome(1).metadata = {"ping_response"}
    /\ Outcome(2).status = StatusUnhealthy

\* C37: the failure log of a call holds one entry for each hook that
\* returned an error and none for a hook that succeeded, in the order the
\* failures happened; the logged index is the position of the failing hook
\* in registration order, counted from 0, so the hook registered at that
\* position is the one that failed.
FailureLoggedWithRegistrationIndex ==
    \A t \in Callers :
        LET failed == {k \in 1..Len(ran[t]) : ran[t][k].err}
        IN  /\ Len(failLog[t]) = Cardinality(failed)
            /\ \A k \in failed :
                  Cardinality({j \in 1..Len(failLog[t]) :
                                  hooks[failLog[t][j] + 1] = ran[t][k].hook}) = 1
            /\ \A j \in 1..Len(failLog[t]) :
                  /\ failLog[t][j] \in 0..(Len(hooks) - 1)
                  /\ \E k \in failed : ran[t][k].hook = hooks[failLog[t][j] + 1]
            /\ \A i, j \in 1..Len(failLog[t]) : i < j => failLog[t][i] > failLog[t][j]

\* C37 witness: of three hooks the one registered last ran first and
\* failed, the next one succeeded: the log holds index 2 alone, not the
\* execution position 0.
LastRegisteredFailedFirst ==
    /\ Len(snap["main"]) = 3
    /\ Len(ran["main"]) = 2
    /\ ran["main"][1].hook = 3 /\ ran["main"][1].err
    /\ ran["main"][2].hook = 2 /\ ~ran["main"][2].err
    /\ failLog["main"] = <<2>>

\* C38: the aggregate status of a report is healthy or unhealthy, never
\* unknown: outcomes of status unknown do not count against it, so a report
\* whose outcomes are all healthy or unknown is healthy.
AggregateNeverUnknown ==
    Reported =>
        /\ health.status \in {StatusHealthy, StatusUnhealthy}
        /\ health.status # StatusUnknown
        /\ ReportStatuses \subseteq {StatusHealthy, StatusUnknown} =>
              health.status = StatusHealthy

\* C38 witness: a report of two outcomes, both unknown, is healthy.
AllUnknownReportedHealthy ==
    /\ Reported
    /\ Len(health.checks) = 2
    /\ ReportStatuses = {StatusUnknown}
    /\ health.status = StatusHealthy

====
